---- MODULE Spec2Model ----
(***************************************************************************)
(* Model of the clip pipeline of scripts/clip_creator.py and of the        *)
(* resumable transfer of scripts/youtube_uploader.py.                      *)
(*                                                                         *)
(* The program is single-threaded: `pc` is the position of main() and of   *)
(* the process_clip() call it is in.  External collaborators (yt-dlp,      *)
(* ffmpeg, the browser session, the video platform, the file system) are   *)
(* nondeterministic choices over the outcomes the code distinguishes.      *)
(***************************************************************************)
EXTENDS Integers, Sequences, FiniteSets, TLC

(* ------------------------------ bounds --------------------------------- *)
\* longest clip list of the analysis artifact
MaxClips == 2
\* most chunks a video file is split in
MaxChunks == 2
\* most unlink() calls that raise in one run
MaxUnlinkErrors == 1

(* ----------------------- clock-style strings --------------------------- *)
\* A string is a sequence of characters; a digit is its value, COLON is ':'
\* and NONDIGIT any character int() rejects.
COLON == 10
NONDIGIT == 11

RECURSIVE SplitRec(_, _, _)
SplitRec(s, k, cur) ==
    IF k > Len(s) THEN <<cur>>
    ELSE IF s[k] = COLON THEN <<cur>> \o SplitRec(s, k + 1, <<>>)
    ELSE SplitRec(s, k + 1, Append(cur, s[k]))

\* str.split(':')
Split(s) == SplitRec(s, 1, <<>>)

\* int(text) succeeds on a non-empty run of digits (no sign, blank or
\* underscore is in the alphabet)
IsInt(f) == Len(f) > 0 /\ \A k \in 1..Len(f) : f[k] \in 0..9

RECURSIVE ToInt(_)
ToInt(f) == IF Len(f) = 0 THEN 0
            ELSE 10 * ToInt(SubSeq(f, 1, Len(f) - 1)) + f[Len(f)]

\* time_to_seconds: [ok |-> FALSE] stands for the ValueError int() raises
time_to_seconds(time_str) ==
    LET parts == Split(time_str) IN
    IF Len(parts) = 3 THEN
        IF IsInt(parts[1]) /\ IsInt(parts[2]) /\ IsInt(parts[3])
        THEN [ok |-> TRUE,
              val |-> ToInt(parts[1]) * 3600 + ToInt(parts[2]) * 60 + ToInt(parts[3])]
        ELSE [ok |-> FALSE, val |-> 0]
    ELSE IF Len(parts) = 2 THEN
        IF IsInt(parts[1]) /\ IsInt(parts[2])
        THEN [ok |-> TRUE, val |-> ToInt(parts[1]) * 60 + ToInt(parts[2])]
        ELSE [ok |-> FALSE, val |-> 0]
    ELSE IF IsInt(parts[1]) THEN [ok |-> TRUE, val |-> ToInt(parts[1])]
    ELSE [ok |-> FALSE, val |-> 0]

RECURSIVE Digits(_)
Digits(n) == IF n < 10 THEN <<n>> ELSE Append(Digits(n \div 10), n % 10)

Pad2_unpadded(n) == Digits(n)

\* the format specifier 02d
Pad2(n) == IF n < 10 THEN <<0, n>> ELSE Digits(n)

seconds_to_time_minutesUnreduced(seconds) ==
    Pad2(seconds \div 3600) \o <<COLON>> \o Pad2(seconds \div 60)
        \o <<COLON>> \o Pad2(seconds % 60)

\* seconds_to_time
seconds_to_time(seconds) ==
    LET h == seconds \div 3600
        m == (seconds % 3600) \div 60
        s == seconds % 60
    IN  Pad2(h) \o <<COLON>> \o Pad2(m) \o <<COLON>> \o Pad2(s)

\* max(0, x)
Max0(x) == IF x > 0 THEN x ELSE 0

(* ------------------------- clip descriptors ---------------------------- *)
T_0010     == <<0, COLON, 1, 0>>                 \* "0:10"
T_0040     == <<0, COLON, 4, 0>>                 \* "0:40"
T_000020   == <<0, COLON, 0, COLON, 2, 0>>       \* "0:0:20"
T_5        == <<5>>                              \* "5"
T_bad      == <<NONDIGIT>>                       \* "x"
T_default0 == <<0, 0, COLON, 0, 0, COLON, 0, 0>> \* "00:00:00"
T_default1 == <<0, 0, COLON, 0, 1, COLON, 0, 0>> \* "00:01:00"

\* dict.get(key, default): `keys` is the set of keys the descriptor has
Get(clip, key, default) == IF key \in clip.keys THEN clip[key] ELSE default

Descriptor(id, platform, start, thumb, keys) ==
    [clip_id |-> id, platform |-> platform, start_time |-> start,
     end_time |-> T_0040, thumbnail_timestamp |-> thumb, keys |-> keys]

AllKeys == {"clip_id", "start_time", "end_time", "thumbnail_timestamp"}

\* the descriptors an analysis artifact is drawn from: a complete one, one
\* with a malformed thumbnail_timestamp that leaves clip_id and end_time to
\* their defaults, one with a malformed start_time, one of another platform
ClipChoices ==
    { Descriptor("a", "youtube", T_0010, T_000020, AllKeys),
      Descriptor("a", "youtube", T_0010, T_bad, {"start_time", "thumbnail_timestamp"}),
      Descriptor("a", "youtube", T_bad, T_5, AllKeys),
      Descriptor("c", "tiktok", T_0010, T_5, AllKeys) }

RECURSIVE SeqsUpTo(_, _)
SeqsUpTo(S, n) ==
    IF n = 0 THEN {<<>>}
    ELSE LET shorter == SeqsUpTo(S, n - 1)
         IN  shorter \cup {Append(q, x) : q \in shorter, x \in S}

\* the `clips` arrays of the analysis artifact
Artifacts == SeqsUpTo(ClipChoices, MaxClips)

\* clip_data.get("clip_id", f"clip_{clip_index}")
DefaultIds == <<"clip_0", "clip_1", "clip_2", "clip_3", "clip_4">>
ClipIdOf(clip, index) == Get(clip, "clip_id", DefaultIds[index + 1])

\* the identifiers a clip of the artifact can get
ClipIds == {ClipIdOf(c, k) : c \in ClipChoices, k \in 0..(MaxClips - 1)}

(* ------------------------------ files ---------------------------------- *)
\* the three temporary files of a clip: TEMP_DIR / f"{clip_id}<suffix>"
Kinds == {"video", "frame", "thumbnail"}
Paths == ClipIds \X Kinds
video_path(id)     == <<id, "video">>
frame_path(id)     == <<id, "frame">>
thumbnail_path(id) == <<id, "thumbnail">>

\* what a path holds: nothing, or data written while clip number `of` was
\* processed ("segment", "frame" or "enhanced")
Absent == [data |-> "absent", of |-> 0]
Exists(fs, p) == fs[p] # Absent

NoValue == "None"

(* ------------------------------ state ---------------------------------- *)
VARIABLES
    pc,            \* position of main() / of the process_clip() call in progress
    pkls,          \* where a token file is: subset of {"analisar", "root", "other"}
    youtube_clips, \* load_clips_config(): the clips of the target platform
    credentials,   \* load_youtube_credentials(): the bundle
    results,       \* main(): the outcomes appended so far
    i,             \* main(): index of the clip of the current iteration
    result,        \* process_clip(): the outcome being built
    files,         \* the temporary directory: Paths -> content
    obs,           \* what the current process_clip() call did (history)
    cleanup,       \* the paths the latest cleanup removed, and those whose
                   \* unlink raised (history)
    unlinkCount,   \* the unlink calls that raised so far (history)
    upl,           \* _resumable_upload(): retry counter and transfer progress
    pauses,        \* indexes of the clips main() slept after (history)
    summary,       \* the persisted processing log
    exitStatus,    \* the process exit status, or NoValue while running
    fatal,         \* the run ended on an error outside process_clip() (history)
    interruptedAt, \* where a KeyboardInterrupt hit the run, if any (history)
    codec,         \* the time codec applied on its own: input and results
    generator,     \* ThumbnailGenerator.generate() run on its own: position,
                   \* inbox, poller counters, browser, outcome
    svc            \* the token file contents and the uploaders built from them

vars == <<pc, pkls, youtube_clips, credentials, results, i, result, files,
          obs, cleanup, unlinkCount, upl, pauses, summary, exitStatus,
          fatal, interruptedAt, codec, generator, svc>>

\* retry ceiling of the resumable transfer
MAX_RETRIES == 5

NoFiles == [p \in Paths |-> Absent]

\* nothing done yet in this process_clip() call
NoObs == [steps |-> <<>>, fetch |-> NoValue, capture |-> NoValue,
          offset |-> <<>>, enhance |-> NoValue,
          upload |-> NoValue, thumb |-> Absent, attach |-> NoValue,
          privacy |-> NoValue,
          gaveUpAfter |-> 0, nonRetriable |-> FALSE, raised |-> NoValue]



\* the locals of _resumable_upload() while it runs; consec counts the
\* retriable failures in a row and failures all of them (history)
NoUpload == [chunksLeft |-> 0, retry |-> 0, consec |-> 0, failures |-> 0]

NoBundle == [pkl_file |-> NoValue]

\* the processing log an earlier run left on disk
PriorSummary ==
    [processed_at |-> "earlier", total_clips |-> 1, successful |-> 1, failed |-> 0,
     clips |-> <<[clip_id |-> "a", status |-> "success", video_id |-> "vid",
                  error |-> NoValue]>>]

NoResult == [clip_id |-> NoValue, status |-> NoValue, video_id |-> NoValue,
             error |-> NoValue]

\* the codec is not in use
NoCodec == [stage |-> "idle", input |-> <<>>, n |-> 0, text |-> <<>>,
            parsed |-> [ok |-> FALSE, val |-> 0],
            clip |-> Descriptor("a", "youtube", T_default0, T_default0, {}),
            offset |-> [ok |-> FALSE, text |-> <<>>]]

\* generate() is not running
NoGen == [pc |-> "idle", inbox |-> {}, mails |-> 0, attempt |-> 0,
          queries |-> 0, sleeps |-> 0, poll |-> NoValue, browser |-> "none",
          code |-> NoValue, failed |-> NoValue, exc |-> FALSE, shot |-> FALSE,
          output |-> FALSE, closeCalled |-> FALSE, ret |-> NoValue]

\* the places a token file can be at: analisar/<name>, ./<name>, and another
\* *.pkl of analisar/
TokenPlaces == {"analisar", "root", "other"}

\* no token file is followed and no uploader has been built
NoSvc == [pc |-> "idle", store |-> [l \in TokenPlaces |-> "absent"],
          calls |-> 0, loads |-> 0, opened |-> NoValue, loaded |-> NoValue,
          creds |-> NoValue, written |-> NoValue, built |-> FALSE]

\* the state of the pipeline before main() runs
Idle ==
    /\ pkls = {}
    /\ youtube_clips = <<>>
    /\ credentials = NoBundle
    /\ results = <<>>
    /\ i = 0
    /\ result = NoResult
    /\ files = NoFiles
    /\ obs = NoObs
    /\ cleanup = [removed |-> {}, raised |-> {}]
    /\ unlinkCount = 0
    /\ upl = NoUpload
    /\ pauses = <<>>
    /\ summary = PriorSummary
    /\ exitStatus = NoValue
    /\ fatal = FALSE
    /\ interruptedAt = NoValue

Init ==
    /\ pc = "start"
    /\ codec = NoCodec
    /\ generator = NoGen
    /\ svc = NoSvc
    /\ Idle

\* sys.exit(code); an exception that leaves main() exits with 1 as well
Exit(code, isFatal) ==
    /\ pc' = "exit"
    /\ exitStatus' = code
    /\ fatal' = isFatal
    /\ UNCHANGED <<interruptedAt, codec, generator, svc>>

Running == UNCHANGED <<exitStatus, fatal, interruptedAt, codec, generator, svc>>

(* ------------------------------ setup ---------------------------------- *)
\* main(): the usage check on sys.argv
CheckArgv ==
    /\ pc = "start"
    /\ \E given \in BOOLEAN :
         IF given
         THEN pc' = "load_clips" /\ Running
         ELSE Exit(1, TRUE)
    /\ UNCHANGED <<cleanup, unlinkCount, pkls, youtube_clips, credentials, results, i, result, files,
                   obs, upl, pauses, summary>>

\* the filter of load_clips_config()
FilterYoutube(clips) == SelectSeq(clips, LAMBDA c : c.platform = "youtube")

\* main() calling load_clips_config(): open() raises when the artifact is
\* missing, and the except clause of main() exits with 1
LoadClipsConfig ==
    /\ pc = "load_clips"
    /\ \/ /\ Exit(1, TRUE)
          /\ UNCHANGED youtube_clips
       \/ \E clips \in Artifacts :
            /\ youtube_clips' = FilterYoutube(clips)
            /\ pc' = "load_credentials"
            /\ Running
    /\ UNCHANGED <<cleanup, unlinkCount, pkls, credentials, results, i, result, files, obs, upl,
                   pauses, summary>>

\* load_youtube_credentials(), given the descriptor found in analisar/
\* ("none": no *.json; "named": it has a pkl_file entry; "unnamed": it has
\* none), the places `local` that hold the token file, and the outcome of
\* the request of download_pkl_from_repo() ("200", another status, "raise").
\* Returns the bundle (pkl_file says which path it refers to), the token
\* files afterwards and whether an exception left the function.
LoadCredentialsResult(descriptor, local, remote) ==
    IF descriptor = "none"
    THEN [raised |-> TRUE, bundle |-> NoBundle, pkls |-> local]
    ELSE IF descriptor = "unnamed"
    \* analisar_dir / "" is the directory itself, which exists
    THEN [raised |-> FALSE, bundle |-> [pkl_file |-> "analisar_dir"], pkls |-> local]
    ELSE IF "analisar" \in local
    THEN [raised |-> FALSE, bundle |-> [pkl_file |-> "analisar"], pkls |-> local]
    ELSE IF "root" \in local
    THEN [raised |-> FALSE, bundle |-> [pkl_file |-> "root"], pkls |-> local]
    ELSE IF remote = "raise"
    THEN [raised |-> TRUE, bundle |-> NoBundle, pkls |-> local]
    ELSE \* the download writes analisar/<name>; the bundle names ./<name>
         [raised |-> FALSE, bundle |-> [pkl_file |-> "root"],
          pkls |-> IF remote = "200" THEN local \cup {"analisar"} ELSE local]

Descriptors == {"none", "named", "unnamed"}
\* the token files found before the run: none, or the named one in analisar/
Locals == {{}, {"analisar"}}
Remotes == {"200", "404", "raise"}

\* main() calling load_youtube_credentials()
LoadCredentials ==
    /\ pc = "load_credentials"
    /\ \E descriptor \in Descriptors :
       \E local \in IF descriptor = "named" THEN Locals ELSE {{}} :
       \E remote \in IF descriptor = "named" /\ local \cap {"analisar", "root"} = {}
                     THEN Remotes ELSE {"200"} :
         LET r == LoadCredentialsResult(descriptor, local, remote) IN
         /\ pkls' = r.pkls
         /\ credentials' = r.bundle
         /\ IF r.raised THEN Exit(1, TRUE)
            ELSE pc' = "vod_info" /\ Running
    /\ UNCHANGED <<cleanup, unlinkCount, youtube_clips, results, i, result, files, obs, upl, pauses,
                   summary>>

NothingToDo_never(clips) == FALSE

\* main(): `if not youtube_clips`
NothingToDo(clips) == clips = <<>>

\* main(): the empty-list exit, then get_vod_info(), whose failure exits 1
GetVodInfo ==
    /\ pc = "vod_info"
    /\ IF NothingToDo(youtube_clips)
       THEN Exit(0, FALSE)
       ELSE \E ok \in BOOLEAN :
              IF ok THEN pc' = "loop" /\ Running
              ELSE Exit(1, TRUE)
    /\ UNCHANGED <<cleanup, unlinkCount, pkls, youtube_clips, credentials, results, i, result,
                   files, obs, upl, pauses, summary>>

(* --------------------------- process_clip ------------------------------ *)
\* the clip of the current iteration and its identifier
Clip == youtube_clips[i + 1]
ClipId == ClipIdOf(Clip, i)
Total == Len(youtube_clips)

ExceptBlock_keepsStatus(res, message) == [res EXCEPT !.error = message]

\* process_clip(): the except clause at the clip boundary
ExceptBlock(res, message) == [res EXCEPT !.status = "error", !.error = message]

DownloadFailed_noStatus(res) ==
    [res EXCEPT !.error = "Falha no download do segmento"]

\* process_clip(): the outcome of a download that reported failure
DownloadFailed(res) ==
    [res EXCEPT !.status = "failed", !.error = "Falha no download do segmento"]

UploadOutcome_idForgotten(res, video_id) ==
    IF video_id # NoValue
    THEN [res EXCEPT !.status = "success"]
    ELSE [res EXCEPT !.status = "failed", !.error = "Falha no upload"]

\* process_clip(): the outcome after upload_to_youtube() returned video_id
UploadOutcome(res, video_id) ==
    IF video_id # NoValue
    THEN [res EXCEPT !.status = "success", !.video_id = video_id]
    ELSE [res EXCEPT !.status = "failed", !.error = "Falha no upload"]

AfterDownload_goesOn(ok) == "capture"

\* process_clip(): a failed download returns at once (to the finally clause)
AfterDownload(ok) == IF ok THEN "capture" ELSE "finally"

\* main() entering process_clip(): the pending outcome is created
ProcessClipBegin ==
    /\ pc = "loop"
    /\ i < Total
    /\ result' = [clip_id |-> ClipId, status |-> "pending",
                  video_id |-> NoValue, error |-> NoValue]
    /\ obs' = NoObs
    /\ upl' = NoUpload
    /\ pc' = "download"
    /\ UNCHANGED <<cleanup, unlinkCount, pkls, youtube_clips, credentials, results, i, files, pauses,
                   summary, exitStatus, fatal, interruptedAt, codec, generator, svc>>

DownloadResult_statusOnly(rc, existsAfter) == rc = "zero"

\* download_clip_segment(): success needs exit status zero and the file
DownloadResult(rc, existsAfter) == rc = "zero" /\ existsAfter

ToolOutcomes == {"zero", "nonzero", "timeout", "exception"}

\* step 1: download_clip_segment().  The two time_to_seconds() calls are
\* outside its try block, so a malformed timestamp raises into process_clip().
DownloadSegment ==
    /\ pc = "download"
    /\ LET start == time_to_seconds(Get(Clip, "start_time", T_default0))
           end   == time_to_seconds(Get(Clip, "end_time", T_default1))
       IN
       IF ~start.ok \/ ~end.ok
       THEN /\ result' = ExceptBlock(result, "str(e)")
            /\ obs' = [obs EXCEPT !.steps = Append(@, "fetch"),
                                  !.fetch = "raise", !.raised = "fetch"]
            /\ pc' = "finally"
            /\ UNCHANGED files
       ELSE \E rc \in ToolOutcomes, wrote \in BOOLEAN :
              LET fs == IF wrote
                        THEN [files EXCEPT ![video_path(ClipId)] =
                                  [data |-> "segment", of |-> i + 1]]
                        ELSE files
                  ok == DownloadResult(rc, Exists(fs, video_path(ClipId)))
              IN
              /\ files' = fs
              /\ obs' = [obs EXCEPT !.steps = Append(@, "fetch"),
                                    !.fetch = IF ok THEN "true" ELSE "false"]
              /\ pc' = AfterDownload(ok)
              /\ result' = IF ok THEN result ELSE DownloadFailed(result)
    /\ UNCHANGED <<cleanup, unlinkCount, pkls, youtube_clips, credentials, results, i, upl, pauses,
                   summary, exitStatus, fatal, interruptedAt, codec, generator, svc>>

RelativeThumb_unclamped(start_sec, thumb_sec) == seconds_to_time(thumb_sec - start_sec)

\* process_clip(): the offset handed to the frame capturer
RelativeThumb(start_sec, thumb_sec) == seconds_to_time(Max0(thumb_sec - start_sec))

\* process_clip(): the offset of the frame inside the segment, computed from
\* the descriptor; ok = FALSE stands for the ValueError of time_to_seconds()
FrameOffset(clip) ==
    LET start_time == Get(clip, "start_time", T_default0)
        start == time_to_seconds(start_time)
        thumb == time_to_seconds(Get(clip, "thumbnail_timestamp", start_time))
    IN  IF ~start.ok \/ ~thumb.ok THEN [ok |-> FALSE, text |-> <<>>]
        ELSE [ok |-> TRUE, text |-> RelativeThumb(start.val, thumb.val)]

\* capture_thumbnail_frame(): success needs exit status zero and the file
CaptureResult(rc, existsAfter) == rc = "zero" /\ existsAfter

\* step 2: the offset computation and capture_thumbnail_frame(), whose
\* return value process_clip() does not use
CaptureFrame ==
    /\ pc = "capture"
    /\ LET relative_thumb == FrameOffset(Clip) IN
       IF ~relative_thumb.ok
       THEN /\ result' = ExceptBlock(result, "str(e)")
            /\ obs' = [obs EXCEPT !.raised = "offset"]
            /\ pc' = "finally"
            /\ UNCHANGED files
       ELSE \E rc \in ToolOutcomes, wrote \in BOOLEAN :
              LET fs == IF wrote
                        THEN [files EXCEPT ![frame_path(ClipId)] =
                                  [data |-> "frame", of |-> i + 1]]
                        ELSE files
              IN
              /\ files' = fs
              /\ obs' = [obs EXCEPT
                           !.steps = Append(@, "capture"),
                           !.offset = relative_thumb.text,
                           !.capture =
                               IF CaptureResult(rc, Exists(fs, frame_path(ClipId)))
                               THEN "true" ELSE "false"]
              /\ pc' = "enhance"
              /\ UNCHANGED result
    /\ UNCHANGED <<cleanup, unlinkCount, pkls, youtube_clips, credentials, results, i, upl, pauses,
                   summary, exitStatus, fatal, interruptedAt, codec, generator, svc>>

\* shutil.copy(src, dst)
Copy(fs, src, dst) == [fs EXCEPT ![dst] = fs[src]]

\* what ThumbnailGenerator(...).generate(...) can do, seen from its caller:
\* fail to import, raise, return True with or without the output file
\* written, return False
GenOutcomes == {"import_error", "raise", "true_file", "true_nofile", "false"}

\* generate_thumbnail_chatgpt(): c1 and c2 tell whether the fallback copies
\* of its else branch and of its except clause succeed
generate_thumbnail_chatgpt(fs, id, idx, gen, c1, c2) ==
    LET frame == frame_path(id)
        thumb == thumbnail_path(id)
        afterGen == IF gen = "true_file"
                    THEN [fs EXCEPT ![thumb] = [data |-> "enhanced", of |-> idx]]
                    ELSE fs
        success == gen \in {"true_file", "true_nofile"}
    IN
    IF gen = "import_error" THEN [files |-> fs, raised |-> TRUE]
    ELSE IF gen # "raise" /\ success /\ Exists(afterGen, thumb)
    THEN [files |-> afterGen, raised |-> FALSE]
    ELSE IF gen # "raise" /\ c1
    THEN [files |-> Copy(afterGen, frame, thumb), raised |-> FALSE]
    ELSE IF c2
    THEN [files |-> Copy(afterGen, frame, thumb), raised |-> FALSE]
    ELSE [files |-> afterGen, raised |-> TRUE]

\* the enhancer failed: it raised, returned False, or returned True with no
\* output file at the thumbnail path
EnhancerFailed(fs, id, gen) ==
    \/ gen \in {"import_error", "raise", "false"}
    \/ gen = "true_nofile" /\ ~Exists(fs, thumbnail_path(id))

\* process_clip(), step 3 with its inner try/except: c3 tells whether the
\* copy of the except clause succeeds; raised means the exception reaches
\* the except clause at the clip boundary
EnhanceStep(fs, id, idx, gen, c1, c2, c3) ==
    LET g == generate_thumbnail_chatgpt(fs, id, idx, gen, c1, c2) IN
    IF ~g.raised THEN g
    ELSE IF c3
    THEN [files |-> Copy(g.files, frame_path(id), thumbnail_path(id)), raised |-> FALSE]
    ELSE [files |-> g.files, raised |-> TRUE]

\* whether the fallback copies succeed, in the order the code reaches them:
\* a copy is only attempted after the one before it failed
CopyOutcomes == {<<TRUE, TRUE, TRUE>>, <<FALSE, TRUE, TRUE>>,
                 <<FALSE, FALSE, TRUE>>, <<FALSE, FALSE, FALSE>>}

\* step 3: enhance the thumbnail when the frame file exists
EnhanceThumbnail ==
    /\ pc = "enhance"
    /\ IF ~Exists(files, frame_path(ClipId))
       THEN /\ pc' = "upload"
            /\ UNCHANGED <<files, obs, result>>
       ELSE \E gen \in GenOutcomes, c \in CopyOutcomes :
              LET e == EnhanceStep(files, ClipId, i + 1, gen, c[1], c[2], c[3]) IN
              /\ files' = e.files
              /\ obs' = [obs EXCEPT !.steps = Append(@, "enhance"),
                                    !.enhance = IF EnhancerFailed(files, ClipId, gen)
                                                THEN "failed" ELSE "enhanced",
                                    !.raised = IF e.raised THEN "enhance" ELSE @]
              /\ IF e.raised
                 THEN pc' = "finally" /\ result' = ExceptBlock(result, "str(e)")
                 ELSE pc' = "upload" /\ UNCHANGED result
    /\ UNCHANGED <<cleanup, unlinkCount, pkls, youtube_clips, credentials, results, i, upl, pauses,
                   summary, exitStatus, fatal, interruptedAt, codec, generator, svc>>

(* ------------------------------ upload --------------------------------- *)
ThumbnailHanded_frameFirst(fs, id) ==
    IF Exists(fs, frame_path(id)) THEN fs[frame_path(id)]
    ELSE fs[thumbnail_path(id)]

\* process_clip() and upload_to_youtube(): the thumbnail handed to upload()
\* is the enhanced file if it exists, else the frame if it exists, else None
ThumbnailHanded(fs, id) ==
    IF Exists(fs, thumbnail_path(id)) THEN fs[thumbnail_path(id)]
    ELSE fs[frame_path(id)]

\* YouTubeUploader._build_service(): the token file it opens
TokenFile(cred, tokens) ==
    LET named == cred.pkl_file
        there == \/ named = "analisar_dir"
                 \/ named \in {"analisar", "root"} /\ named \in tokens
    IN  IF there THEN named
        ELSE IF "analisar" \in tokens THEN "analisar"
        ELSE IF "other" \in tokens THEN "other"
        ELSE "missing"

\* _build_service() raises when no token file is found or open() fails on it
ServiceBuilt(cred, tokens, envOk) ==
    TokenFile(cred, tokens) \notin {"missing", "analisar_dir"} /\ envOk

privacy_status_public == "public"

\* upload_to_youtube(): the privacy_status it passes to upload()
privacy_status == "private"

\* upload(): the status part of the body of the insert request
RequestStatus(privacy) ==
    [privacyStatus |-> privacy, selfDeclaredMadeForKids |-> FALSE]

\* step 4, up to the first chunk request: upload_to_youtube() imports the
\* uploader (outside its try block), builds the service, and upload() creates
\* the insert request for a file of `chunks` chunks
UploadBegin ==
    /\ pc = "upload"
    /\ \E imported \in BOOLEAN, envOk \in BOOLEAN, inserted \in BOOLEAN :
         LET handed == ThumbnailHanded(files, ClipId)
             seen == [obs EXCEPT !.steps = Append(@, "upload"), !.thumb = handed]
         IN
         IF ~imported
         THEN /\ result' = ExceptBlock(result, "str(e)")
              /\ obs' = [seen EXCEPT !.upload = "raise", !.raised = "upload"]
              /\ pc' = "finally"
              /\ UNCHANGED upl
         ELSE IF ~ServiceBuilt(credentials, pkls, envOk)
                 \/ ~Exists(files, video_path(ClipId)) \/ ~inserted
         THEN /\ result' = UploadOutcome(result, NoValue)
              /\ obs' = [seen EXCEPT !.upload = "no_id"]
              /\ pc' = "finally"
              /\ UNCHANGED upl
         ELSE /\ \E chunks \in 1..MaxChunks :
                   upl' = [NoUpload EXCEPT !.chunksLeft = chunks]
              /\ obs' = [seen EXCEPT !.privacy =
                                 RequestStatus(privacy_status).privacyStatus]
              /\ pc' = "chunk"
              /\ UNCHANGED result
    /\ UNCHANGED <<cleanup, unlinkCount, pkls, youtube_clips, credentials, results, i, files, pauses,
                   summary, exitStatus, fatal, interruptedAt, codec, generator, svc>>

CeilingHit_oneLater(retry) == retry > MAX_RETRIES + 1

\* _resumable_upload(): the retry ceiling
CeilingHit(retry) == retry > MAX_RETRIES

\* what one insert_request.next_chunk() call can do: transfer a chunk that
\* is not the last, complete the transfer with or without an id in the
\* response, fail with a retriable status or transport error, fail with
\* another HTTP status, or raise something else
ChunkOutcomes == {"progress", "complete", "complete_noid", "retriable_http",
                  "transport", "fatal_http", "other_exception"}

Retriable_anyHttpError(out) == out \in {"retriable_http", "transport", "fatal_http"}

\* _resumable_upload(): the failures that are retried, an HttpError with a
\* status of RETRIABLE_STATUS_CODES or one of RETRIABLE_EXCEPTIONS; any other
\* HttpError is re-raised
Retriable(out) == out \in {"retriable_http", "transport"}

RetryAfterFailure_forgotten(retry) == retry

\* _resumable_upload(): retry += 1 on a retriable failure
RetryAfterFailure(retry) == retry + 1

RetryAfterChunk_reset(retry) == 0

\* _resumable_upload(): a chunk that went through leaves retry as it is
RetryAfterChunk(retry) == retry

\* one iteration of the while loop of _resumable_upload().  The loop goes on
\* (pc stays "chunk") or ends with the value upload() gets from it: an id,
\* None, or an exception, which upload() turns into None.  obs.gaveUpAfter
\* keeps the failures in a row at the moment the ceiling was hit.
NextChunk ==
    /\ pc = "chunk"
    /\ \E out \in ChunkOutcomes :
         /\ out = "progress" => upl.chunksLeft > 1
         /\ out \in {"complete", "complete_noid"} => upl.chunksLeft = 1
         /\ CASE out = "progress" ->
                   /\ upl' = [upl EXCEPT !.chunksLeft = @ - 1, !.consec = 0,
                                          !.retry = RetryAfterChunk(@)]
                   /\ UNCHANGED <<pc, obs>>
              [] out = "complete" ->
                   /\ upl' = NoUpload
                   /\ obs' = [obs EXCEPT !.upload = "vid"]
                   /\ pc' = "uploaded"
              [] out = "complete_noid" ->
                   /\ upl' = NoUpload
                   /\ obs' = [obs EXCEPT !.upload = "no_id"]
                   /\ pc' = "uploaded"
              [] Retriable(out) ->
                   LET failed == [upl EXCEPT !.retry = RetryAfterFailure(@),
                                             !.consec = @ + 1,
                                             !.failures = @ + 1]
                       seen == [obs EXCEPT !.nonRetriable = @ \/ out = "fatal_http"]
                   IN
                   IF CeilingHit(failed.retry)
                   THEN /\ upl' = NoUpload
                        /\ obs' = [seen EXCEPT !.upload = "no_id",
                                               !.gaveUpAfter = failed.consec]
                        /\ pc' = "uploaded"
                   ELSE /\ upl' = failed
                        /\ obs' = seen
                        /\ UNCHANGED pc
              [] out \in {"fatal_http", "other_exception"} /\ ~Retriable(out) ->
                   /\ upl' = NoUpload
                   /\ obs' = [obs EXCEPT !.upload = "no_id",
                                         !.nonRetriable = (out = "fatal_http")]
                   /\ pc' = "uploaded"
    /\ UNCHANGED <<cleanup, unlinkCount, pkls, youtube_clips, credentials, results, i, result, files,
                   pauses, summary, exitStatus, fatal, interruptedAt, codec, generator, svc>>

\* what thumbnails().set(...).execute() can do
AttachOutcomes == {"set", "http_403", "http_error", "exception"}

\* _set_thumbnail(): every failure is logged and turned into False
set_thumbnail(attach) == IF attach = "set" THEN "True" ELSE "False"

upload_return_needsThumbnail(video_id, attached) ==
    IF attached = "False" THEN NoValue ELSE video_id

\* upload(): what it returns once the transfer ended; the value of
\* _set_thumbnail() is not used
upload_return(video_id, attached) == video_id

\* the rest of upload() once the transfer ended (the custom thumbnail is
\* attached when there is an id and a thumbnail), the return of
\* upload_to_youtube() and the status assignment of process_clip()
UploadReturn ==
    /\ pc = "uploaded"
    /\ \E attach \in AttachOutcomes :
         LET attached == IF obs.upload = "vid" /\ obs.thumb # Absent
                         THEN set_thumbnail(attach) ELSE NoValue
             video_id == IF obs.upload = "vid" THEN "vid" ELSE NoValue
         IN
         /\ obs' = [obs EXCEPT !.attach = attached]
         /\ result' = UploadOutcome(result, upload_return(video_id, attached))
    /\ pc' = "finally"
    /\ UNCHANGED <<cleanup, unlinkCount, pkls, youtube_clips, credentials, results, i, files, upl,
                   pauses, summary, exitStatus, fatal, interruptedAt, codec, generator, svc>>

(* ----------------------- cleanup and batch runner ---------------------- *)
CleanupTargets_noThumbnail(id) == {video_path(id), frame_path(id)}

\* the paths process_clip() hands to cleanup_temp_files()
CleanupTargets(id) == {video_path(id), frame_path(id), thumbnail_path(id)}

\* cleanup_temp_files(): every existing path is unlinked; an unlink that
\* raises (the paths in `failing`) is logged and the file stays
cleanup_temp_files(fs, paths, failing) ==
    [p \in Paths |-> IF p \in paths /\ p \notin failing THEN Absent ELSE fs[p]]

PauseAfter_anyStatus(res, index, total) == index < total - 1

\* main(): the pause after a successful clip that is not the last
PauseAfter(res, index, total) == res.status = "success" /\ index < total - 1

NextIndex_repeatFailed(res, index) ==
    IF res.status = "failed" THEN index ELSE index + 1

\* main(): `for i, clip in enumerate(youtube_clips)` goes on to the next clip
\* whatever the outcome
NextIndex(res, index) == index + 1

\* the finally clause of process_clip(), its return, and the rest of the
\* loop body of main(): the outcome is appended and the pause decided.
\* The locals of process_clip() are gone afterwards.
CleanupAndReturn ==
    /\ pc = "finally"
    /\ \E failing \in SUBSET {p \in CleanupTargets(ClipId) : Exists(files, p)} :
         /\ unlinkCount + Cardinality(failing) <= MaxUnlinkErrors
         /\ unlinkCount' = unlinkCount + Cardinality(failing)
         /\ files' = cleanup_temp_files(files, CleanupTargets(ClipId), failing)
         /\ cleanup' = [removed |-> {p \in CleanupTargets(ClipId) :
                                         Exists(files, p) /\ p \notin failing},
                        raised |-> failing]
    /\ results' = Append(results, result)
    /\ pauses' = IF PauseAfter(result, i, Total) THEN Append(pauses, i) ELSE pauses
    /\ i' = NextIndex(result, i)
    /\ result' = NoResult
    /\ obs' = NoObs
    /\ pc' = "loop"
    /\ UNCHANGED <<pkls, youtube_clips, credentials, upl, summary, exitStatus, fatal, interruptedAt, codec, generator, svc>>

CountStatus(rs, statuses) ==
    Cardinality({k \in 1..Len(rs) : rs[k].status \in statuses})

save_processing_log_failedOnly(rs) ==
    [processed_at |-> "now",
     total_clips  |-> Len(rs),
     successful   |-> CountStatus(rs, {"success"}),
     failed       |-> CountStatus(rs, {"failed"}),
     clips        |-> rs]

\* save_processing_log()
save_processing_log(rs) ==
    [processed_at |-> "now",
     total_clips  |-> Len(rs),
     successful   |-> CountStatus(rs, {"success"}),
     failed       |-> CountStatus(rs, {"failed", "error"}),
     clips        |-> rs]

ExitCode_nothingUploaded(s) == IF s.successful = 0 /\ s.total_clips > 0 THEN 1 ELSE 0

\* main(): the exit status after the summary
ExitCode(s) == IF s.failed > 0 THEN 1 ELSE 0

\* main() after the loop: the summary is persisted and the process exits;
\* an exception of save_processing_log() reaches the handler of __main__
SaveAndExit ==
    /\ pc = "loop"
    /\ i = Total
    /\ \E written \in BOOLEAN :
         IF written
         THEN /\ summary' = save_processing_log(results)
              /\ Exit(ExitCode(save_processing_log(results)), FALSE)
         ELSE /\ Exit(1, TRUE)
              /\ UNCHANGED summary
    /\ UNCHANGED <<cleanup, unlinkCount, pkls, youtube_clips, credentials, results, i, result, files,
                   obs, upl, pauses>>

Next ==
    \/ CheckArgv
    \/ LoadClipsConfig
    \/ LoadCredentials
    \/ GetVodInfo
    \/ ProcessClipBegin
    \/ DownloadSegment
    \/ CaptureFrame
    \/ EnhanceThumbnail
    \/ UploadBegin
    \/ NextChunk
    \/ UploadReturn
    \/ CleanupAndReturn
    \/ SaveAndExit

Spec == Init /\ [][Next]_vars

(* ------------------------------ interrupt ------------------------------ *)
\* positions inside one process_clip() call
InClip == {"download", "capture", "enhance", "upload", "chunk", "uploaded",
           "finally"}

CaughtAtClipBoundary_bareExcept(exc) == TRUE

\* `except Exception` of process_clip(): KeyboardInterrupt is not a subclass
\* of Exception
CaughtAtClipBoundary(exc) == exc # "KeyboardInterrupt"

\* A KeyboardInterrupt raised at the current position.  No handler below
\* __main__ catches it: inside process_clip() only the finally clause runs,
\* then the handler of __main__ exits with 130.
Interrupt ==
    /\ pc # "exit"
    /\ interruptedAt = NoValue
    /\ interruptedAt' = pc
    /\ IF pc \in InClip /\ CaughtAtClipBoundary("KeyboardInterrupt")
       THEN /\ result' = ExceptBlock(result, "str(e)")
            /\ obs' = [obs EXCEPT !.raised = "interrupt"]
            /\ pc' = "finally"
            /\ UNCHANGED <<files, cleanup, unlinkCount, upl, exitStatus, fatal>>
       ELSE /\ IF pc \in InClip
               THEN \E failing \in SUBSET {p \in CleanupTargets(ClipId) : Exists(files, p)} :
                      /\ unlinkCount + Cardinality(failing) <= MaxUnlinkErrors
                      /\ unlinkCount' = unlinkCount + Cardinality(failing)
                      /\ files' = cleanup_temp_files(files, CleanupTargets(ClipId), failing)
                      /\ cleanup' = [removed |-> {p \in CleanupTargets(ClipId) :
                                                     Exists(files, p) /\ p \notin failing},
                                     raised |-> failing]
               ELSE UNCHANGED <<files, cleanup, unlinkCount>>
            /\ result' = NoResult
            /\ obs' = NoObs
            /\ upl' = NoUpload
            /\ pc' = "exit"
            /\ exitStatus' = 130
            /\ UNCHANGED fatal
    /\ UNCHANGED <<pkls, youtube_clips, credentials, results, i, pauses, summary,
                   codec, generator, svc>>

NextInterruptible ==
    \/ Next
    \/ Interrupt

\* the run with an interrupt signal that may arrive at any point
SpecInterruptible == Init /\ [][NextInterruptible]_vars

(* ------------------------------ time codec ----------------------------- *)
\* largest seconds count formatted, besides LargeSeconds
MaxSeconds == 3725
\* most colon-separated fields of a clock string parsed
MaxFields == 4

\* seconds counts beyond 99 hours
LargeSeconds == {h * 3600 + 59 * 60 + 59 : h \in {99, 100, 1000}}

\* the fields a clock string is made of: digit runs, the empty string, a
\* field int() rejects
Fields == {<<0, 1>>, <<0, 2>>, <<0, 3>>, <<3, 0>>, <<4, 5>>, <<2>>, <<9, 0>>,
           <<1, 0, 0>>, <<>>, <<NONDIGIT>>}

RECURSIVE ClockStrings(_)
ClockStrings(n) ==
    IF n = 1 THEN Fields
    ELSE ClockStrings(n - 1)
         \cup {s \o <<COLON>> \o f : s \in ClockStrings(n - 1), f \in Fields}

\* the keys of a descriptor that matter to the frame offset: all, all but
\* thumbnail_timestamp, neither start_time nor thumbnail_timestamp
OffsetKeys == {AllKeys, AllKeys \ {"thumbnail_timestamp"},
               AllKeys \ {"start_time", "thumbnail_timestamp"}}

\* the codec is given a seconds count to format, a string to parse, or a
\* clip descriptor whose frame offset is to be computed
InitCodec ==
    /\ pc = "codec"
    /\ generator = NoGen
    /\ svc = NoSvc
    /\ Idle
    /\ \/ \E n \in (0..MaxSeconds) \cup LargeSeconds :
            codec = [NoCodec EXCEPT !.stage = "seconds", !.n = n]
       \/ \E s \in ClockStrings(MaxFields) :
            codec = [NoCodec EXCEPT !.stage = "string", !.input = s]
       \/ \E start \in ClockStrings(2), thumb \in ClockStrings(2) \cup {T_000020},
             keys \in OffsetKeys :
            codec = [NoCodec EXCEPT
                       !.stage = "clip",
                       !.clip = Descriptor("a", "youtube", start, thumb, keys)]

\* the pipeline does not run while the codec is applied on its own
PipelineIdle ==
    UNCHANGED <<pc, pkls, youtube_clips, credentials, results, i, result, files,
                obs, cleanup, unlinkCount, upl, pauses, summary, exitStatus,
                fatal, interruptedAt>>

\* only the codec runs
CodecOnly == PipelineIdle /\ UNCHANGED <<generator, svc>>

\* seconds_to_time(n)
FormatSeconds ==
    /\ codec.stage = "seconds"
    /\ codec' = [codec EXCEPT !.stage = "formatted", !.text = seconds_to_time(codec.n)]
    /\ CodecOnly

\* time_to_seconds(seconds_to_time(n))
ParseFormatted ==
    /\ codec.stage = "formatted"
    /\ codec' = [codec EXCEPT !.stage = "round_trip",
                              !.parsed = time_to_seconds(codec.text)]
    /\ CodecOnly

\* time_to_seconds(s)
ParseString ==
    /\ codec.stage = "string"
    /\ codec' = [codec EXCEPT !.stage = "parsed", !.parsed = time_to_seconds(codec.input)]
    /\ CodecOnly

\* seconds_to_time(time_to_seconds(s)), when the parse returned
FormatParsed ==
    /\ codec.stage = "parsed"
    /\ codec.parsed.ok
    /\ codec' = [codec EXCEPT !.stage = "normalized", !.n = codec.parsed.val,
                              !.text = seconds_to_time(codec.parsed.val)]
    /\ CodecOnly

\* process_clip(): the frame offset of the descriptor
ComputeOffset ==
    /\ codec.stage = "clip"
    /\ codec' = [codec EXCEPT !.stage = "offset", !.offset = FrameOffset(codec.clip)]
    /\ CodecOnly

NextCodec ==
    \/ FormatSeconds
    \/ ParseFormatted
    \/ ParseString
    \/ FormatParsed
    \/ ComputeOffset

SpecCodec == InitCodec /\ [][NextCodec]_vars

(* ------------------------ thumbnail generator -------------------------- *)
\* _get_chatgpt_code(): the default of max_attempts
max_attempts == 30
\* most code mails delivered while generate() runs
MaxMails == 1

\* A message the inbox query matches: the login request it answers, when it
\* was received ("stale": before the login request of this run was
\* submitted; "early": after the submit and before the poller took its start
\* time; "fresh": at or after that start time), and whether its subject
\* carries six digits.
Mail(login, date, digits) == [login |-> login, date |-> date, sixDigits |-> digits]

\* the inboxes generate() can find: code mails of earlier logins
Inboxes == SUBSET {Mail("earlier", "stale", TRUE), Mail("earlier", "stale", FALSE)}

\* the pipeline, the codec and the uploader do not run while generate() is
\* followed on its own
GeneratorOnly ==
    UNCHANGED <<pc, pkls, youtube_clips, credentials, results, i, result, files,
                obs, cleanup, unlinkCount, upl, pauses, summary, exitStatus,
                fatal, interruptedAt, codec, svc>>

\* generate() is called
InitThumbnail ==
    /\ pc = "thumbnail"
    /\ codec = NoCodec
    /\ svc = NoSvc
    /\ Idle
    /\ \E inbox \in Inboxes :
         generator = [NoGen EXCEPT !.pc = "start", !.inbox = inbox]

\* an exception raised by a step inside the try block of generate()
Raise(g, step) == [g EXCEPT !.failed = step, !.exc = TRUE, !.pc = "except"]

\* generate(): the check of the base image, which returns False
GenerateBegin ==
    /\ generator.pc = "start"
    /\ \E imageExists \in BOOLEAN :
         generator' = IF imageExists
                      THEN [generator EXCEPT !.pc = "gmail"]
                      ELSE [generator EXCEPT !.failed = "image", !.ret = "False",
                                             !.pc = "done"]
    /\ GeneratorOnly

\* generate(): _get_gmail_service() inside its own try block
ConnectGmail ==
    /\ generator.pc = "gmail"
    /\ \E connected \in BOOLEAN :
         generator' = IF connected
                      THEN [generator EXCEPT !.pc = "launch"]
                      ELSE [generator EXCEPT !.failed = "gmail", !.ret = "False",
                                             !.pc = "done"]
    /\ GeneratorOnly

\* generate(): the exit of the `with sync_playwright()` block stops the
\* Playwright driver; what that does to a browser which was launched and not
\* closed is not decided by this code: it is left open or stopped with the
\* driver
AfterWith(browser) == IF browser = "open" THEN {"open", "stopped"} ELSE {browser}

\* generate(): the browser is launched before the try block, so an
\* exception of the launch leaves generate()
LaunchBrowser ==
    /\ generator.pc = "launch"
    /\ \E launched \in BOOLEAN :
         generator' = IF launched
                      THEN [generator EXCEPT !.browser = "open", !.pc = "page"]
                      ELSE [generator EXCEPT !.failed = "launch", !.exc = TRUE,
                                             !.ret = "raise", !.pc = "done"]
    /\ GeneratorOnly

\* generate(): the context and the page are created, and the default
\* timeout set, between the launch and the try block: an exception of these
\* calls leaves generate() without reaching the finally clause
OpenPage ==
    /\ generator.pc = "page"
    /\ \E opened \in BOOLEAN, left \in AfterWith(generator.browser) :
         generator' = IF opened
                      THEN [generator EXCEPT !.pc = "login"]
                      ELSE [generator EXCEPT !.failed = "page", !.exc = TRUE,
                                             !.browser = left,
                                             !.ret = "raise", !.pc = "done"]
    /\ GeneratorOnly

\* step 1 up to the click on Continue, which submits the login request
SubmitLogin ==
    /\ generator.pc = "login"
    /\ \E ok \in BOOLEAN :
         generator' = IF ok THEN [generator EXCEPT !.pc = "submitted"]
                      ELSE Raise(generator, "login")
    /\ GeneratorOnly

\* _get_chatgpt_code() is entered and takes its start time
StartPolling ==
    /\ generator.pc = "submitted"
    /\ generator' = [generator EXCEPT !.pc = "poll"]
    /\ GeneratorOnly

\* a code mail arrives once the login request is submitted: the one of this
\* request, or a late one of an earlier request
DeliverMail ==
    /\ generator.pc \in {"submitted", "poll"}
    /\ generator.mails < MaxMails
    /\ \E login \in {"earlier", "current"}, digits \in BOOLEAN :
         LET date == IF generator.pc = "submitted" THEN "early" ELSE "fresh" IN
         generator' = [generator EXCEPT
                         !.inbox = @ \cup {Mail(login, date, digits)},
                         !.mails = @ + 1]
    /\ GeneratorOnly

AttemptsLeft_oneMore(attempt) == attempt <= max_attempts

\* _get_chatgpt_code(): for attempt in range(max_attempts)
AttemptsLeft(attempt) == attempt < max_attempts

\* _get_chatgpt_code(): a message is read unless it is older than the start
\* time, and gives the code when its subject carries six digits
Accepted(m) == m.date = "fresh" /\ m.sixDigits

\* _get_chatgpt_code(), one iteration of its loop: the inbox query and the
\* reading of the messages (a request that raises leaves the poller), the
\* return of a code, or the sleep; with no attempt left, the TimeoutError
PollInbox ==
    /\ generator.pc = "poll"
    /\ IF AttemptsLeft(generator.attempt)
       THEN \E api \in {"ok", "raise"} :
              LET asked == [generator EXCEPT !.queries = @ + 1] IN
              IF api = "raise"
              THEN generator' = [Raise(asked, "login") EXCEPT !.poll = "api_error"]
              ELSE IF \E m \in generator.inbox : Accepted(m)
              THEN \E m \in {a \in generator.inbox : Accepted(a)} :
                     generator' = [asked EXCEPT !.poll = "code", !.code = m.login,
                                                !.pc = "code"]
              ELSE generator' = [asked EXCEPT !.attempt = @ + 1, !.sleeps = @ + 1]
       ELSE generator' = [Raise(generator, "login") EXCEPT !.poll = "timeout"]
    /\ GeneratorOnly

\* step 1 after the code: it is typed, validated, and the login awaited
FinishLogin ==
    /\ generator.pc = "code"
    /\ \E ok \in BOOLEAN :
         generator' = IF ok THEN [generator EXCEPT !.pc = "create"]
                      ELSE Raise(generator, "login")
    /\ GeneratorOnly

\* step 2: the image tool is selected
CreateImage ==
    /\ generator.pc = "create"
    /\ \E ok \in BOOLEAN :
         generator' = IF ok THEN [generator EXCEPT !.pc = "attach"]
                      ELSE Raise(generator, "create")
    /\ GeneratorOnly

\* step 3: the file input, or the drag and drop of its except clause, whose
\* exceptions reach the outer except clause
AttachImage ==
    /\ generator.pc = "attach"
    /\ \E out \in {"file_input", "drag_and_drop", "raise"} :
         generator' = IF out = "raise" THEN Raise(generator, "attach")
                      ELSE [generator EXCEPT !.pc = "prompt"]
    /\ GeneratorOnly

\* steps 4 to 6: the prompt is typed and sent, and the generation awaited
SubmitPrompt ==
    /\ generator.pc = "prompt"
    /\ \E ok \in BOOLEAN :
         generator' = IF ok THEN [generator EXCEPT !.pc = "retrieve"]
                      ELSE Raise(generator, "prompt")
    /\ GeneratorOnly

\* what step 7 can do: find no image, raise on the hover, download with the
\* button, and after a failure of the button download with the session
\* cookies, find no image address, get another status than 200, or raise
RetrieveOutcomes == {"none_found", "hover_raise", "button", "direct",
                     "direct_no_url", "direct_non200", "direct_raise"}

\* step 7: the generated image is saved, or False is returned
RetrieveImage ==
    /\ generator.pc = "retrieve"
    /\ \E out \in RetrieveOutcomes :
         generator' =
             IF out \in {"hover_raise", "direct_raise"}
             THEN Raise(generator, "retrieve")
             ELSE IF out \in {"button", "direct"}
             THEN [generator EXCEPT !.output = TRUE, !.ret = "True", !.pc = "finally"]
             ELSE [generator EXCEPT !.failed = "retrieve", !.ret = "False",
                                    !.pc = "finally"]
    /\ GeneratorOnly

\* generate(): the outer except clause takes the screenshot, which raises
\* when the page cannot take one, and returns False
GenerateExcept ==
    /\ generator.pc = "except"
    /\ \E captured \in BOOLEAN :
         generator' = IF captured
                      THEN [generator EXCEPT !.shot = TRUE, !.ret = "False",
                                             !.pc = "finally"]
                      ELSE [generator EXCEPT !.ret = "raise", !.pc = "finally"]
    /\ GeneratorOnly

\* what browser.close() can do: close the browser, or raise with the
\* browser closed or still open
CloseOutcomes == {"closed", "raise_closed", "raise_open"}

\* generate(): the finally clause closes the browser; an exception of
\* close() replaces the pending return and leaves the with block
GenerateFinally ==
    /\ generator.pc = "finally"
    /\ \E out \in CloseOutcomes, left \in AfterWith(generator.browser) :
         generator' =
             [generator EXCEPT
                !.browser = IF out = "raise_open" THEN left ELSE "closed",
                !.ret = IF out = "closed" THEN @ ELSE "raise",
                !.closeCalled = TRUE,
                !.pc = "done"]
    /\ GeneratorOnly

\* the steps generate() takes
GenerateStep ==
    \/ GenerateBegin
    \/ ConnectGmail
    \/ LaunchBrowser
    \/ OpenPage
    \/ SubmitLogin
    \/ StartPolling
    \/ PollInbox
    \/ FinishLogin
    \/ CreateImage
    \/ AttachImage
    \/ SubmitPrompt
    \/ RetrieveImage
    \/ GenerateExcept
    \/ GenerateFinally

NextThumbnail ==
    \/ GenerateStep
    \/ DeliverMail

\* every call of generate() returns or times out (the page has a default
\* timeout, the poller sleeps a fixed interval), so its next step is taken
SpecThumbnail ==
    InitThumbnail /\ [][NextThumbnail]_vars /\ WF_vars(GenerateStep)

(* --------------------------- upload service ---------------------------- *)
\* what a token file holds: a token that is valid, one that is expired and
\* has a refresh token, one that is expired and has none, and the token a
\* refresh of this run produced
TokenStates == {"valid", "expired_refreshable", "expired_norefresh", "refreshed"}

\* only the uploaders are followed
ServiceOnly ==
    UNCHANGED <<pc, pkls, youtube_clips, credentials, results, i, result, files,
                obs, cleanup, unlinkCount, upl, pauses, summary, exitStatus,
                fatal, interruptedAt, codec, generator>>

\* load_youtube_credentials() has returned the bundle: the token files on
\* disk and what they hold
InitService ==
    /\ pc = "service"
    /\ codec = NoCodec
    /\ generator = NoGen
    /\ youtube_clips = <<>> /\ results = <<>> /\ i = 0 /\ result = NoResult
    /\ files = NoFiles /\ obs = NoObs
    /\ cleanup = [removed |-> {}, raised |-> {}] /\ unlinkCount = 0
    /\ upl = NoUpload /\ pauses = <<>> /\ summary = PriorSummary
    /\ exitStatus = NoValue /\ fatal = FALSE /\ interruptedAt = NoValue
    /\ \E descriptor \in {"named", "unnamed"}, local \in SUBSET TokenPlaces,
          remote \in {"200", "404"} :
         LET r == LoadCredentialsResult(descriptor, local, remote) IN
         /\ credentials = r.bundle
         /\ pkls = r.pkls
         /\ \E held \in [r.pkls -> TokenStates \ {"refreshed"}] :
              svc = [NoSvc EXCEPT
                       !.pc = "ready",
                       !.store = [l \in TokenPlaces |->
                                     IF l \in r.pkls THEN held[l] ELSE "absent"]]

\* an exception leaves _build_service(): upload_to_youtube() logs it and
\* returns None, and the run goes on to the next clip
BuildFailed(s) == [s EXCEPT !.pc = "ready"]

\* upload_to_youtube() builds a YouTubeUploader, whose constructor calls
\* _build_service(); process_clip() does so for every clip that reaches its
\* step 4
UploadToYoutube ==
    /\ svc.pc = "ready"
    /\ svc.calls < MaxClips
    /\ svc' = [svc EXCEPT !.pc = "locate", !.calls = @ + 1, !.opened = NoValue,
                          !.loaded = NoValue, !.creds = NoValue,
                          !.written = NoValue, !.built = FALSE]
    /\ ServiceOnly

\* _build_service(): the path of the bundle, or the first *.pkl of
\* analisar/, or FileNotFoundError
LocateToken ==
    /\ svc.pc = "locate"
    /\ LET f == TokenFile(credentials, pkls) IN
       svc' = IF f = "missing" THEN BuildFailed(svc)
              ELSE [svc EXCEPT !.opened = f, !.pc = "open"]
    /\ ServiceOnly

\* _build_service(): open() and pickle.load(); the path of a directory
\* cannot be opened
LoadToken ==
    /\ svc.pc = "open"
    /\ \E readable \in BOOLEAN :
         svc' = IF readable /\ svc.opened # "analisar_dir"
                THEN [svc EXCEPT !.loaded = svc.store[svc.opened],
                                 !.creds = svc.store[svc.opened],
                                 !.loads = @ + 1, !.pc = "refresh"]
                ELSE BuildFailed(svc)
    /\ ServiceOnly

\* _build_service(): creds.expired and creds.refresh_token
NeedsRefresh(creds) == creds = "expired_refreshable"

WriteBackPath_bundlePath(named, opened) == named

\* _build_service(): the refreshed token is written to the path it was read
\* from (the local pkl_file, which the glob may have replaced)
WriteBackPath(named, opened) == opened

\* _build_service(): the refresh and the write of the refreshed token, each
\* of which can raise
RefreshToken ==
    /\ svc.pc = "refresh"
    /\ IF NeedsRefresh(svc.creds)
       THEN \E refreshed \in BOOLEAN, stored \in BOOLEAN :
              LET path == WriteBackPath(credentials.pkl_file, svc.opened) IN
              svc' = IF ~refreshed THEN BuildFailed(svc)
                     ELSE IF ~stored
                     THEN BuildFailed([svc EXCEPT !.creds = "refreshed"])
                     ELSE [svc EXCEPT !.creds = "refreshed",
                                      !.store[path] = "refreshed",
                                      !.written = path, !.pc = "build"]
       ELSE svc' = [svc EXCEPT !.pc = "build"]
    /\ ServiceOnly

\* _build_service(): build('youtube', 'v3', credentials=creds)
BuildService ==
    /\ svc.pc = "build"
    /\ \E ok \in BOOLEAN :
         svc' = IF ok THEN [svc EXCEPT !.built = TRUE, !.pc = "ready"]
                ELSE BuildFailed(svc)
    /\ ServiceOnly

\* between two uploads the token of a file runs out
TokenExpires ==
    /\ svc.pc = "ready"
    /\ svc.calls \in 1..(MaxClips - 1)
    /\ \E l \in TokenPlaces :
         /\ svc.store[l] \in {"valid", "refreshed"}
         /\ svc' = [svc EXCEPT !.store[l] = "expired_refreshable"]
    /\ ServiceOnly

NextService ==
    \/ UploadToYoutube
    \/ LocateToken
    \/ LoadToken
    \/ RefreshToken
    \/ BuildService
    \/ TokenExpires

SpecService == InitService /\ [][NextService]_vars

(* ------------------------------ transfer ------------------------------- *)
\* process_clip() has reached its step 4 for the only clip of the run: the
\* segment is on disk, with or without a frame and a thumbnail
InitTransfer ==
    /\ pc = "upload"
    /\ codec = NoCodec
    /\ generator = NoGen
    /\ svc = NoSvc
    /\ pkls = {"analisar"}
    /\ \E named \in {"analisar", "root"} : credentials = [pkl_file |-> named]
    /\ youtube_clips = <<Descriptor("a", "youtube", T_0010, T_000020, AllKeys)>>
    /\ results = <<>>
    /\ i = 0
    /\ result = [clip_id |-> "a", status |-> "pending", video_id |-> NoValue,
                 error |-> NoValue]
    /\ cleanup = [removed |-> {}, raised |-> {}]
    /\ unlinkCount = 0
    /\ upl = NoUpload
    /\ pauses = <<>>
    /\ summary = PriorSummary
    /\ exitStatus = NoValue
    /\ fatal = FALSE
    /\ interruptedAt = NoValue
    /\ \E thumb \in {"none", "frame", "enhanced"} :
         LET segment == [NoFiles EXCEPT ![video_path("a")] =
                             [data |-> "segment", of |-> 1]]
             captured == [segment EXCEPT ![frame_path("a")] =
                              [data |-> "frame", of |-> 1]]
             offset == RelativeThumb(10, 20)
         IN
         CASE thumb = "none" ->
                /\ files = segment
                /\ obs = [NoObs EXCEPT !.steps = <<"fetch", "capture">>,
                                       !.fetch = "true", !.capture = "false",
                                       !.offset = offset]
           [] thumb = "frame" ->
                /\ files = Copy(captured, frame_path("a"), thumbnail_path("a"))
                /\ obs = [NoObs EXCEPT !.steps = <<"fetch", "capture", "enhance">>,
                                       !.fetch = "true", !.capture = "true",
                                       !.offset = offset, !.enhance = "failed"]
           [] thumb = "enhanced" ->
                /\ files = [captured EXCEPT ![thumbnail_path("a")] =
                                [data |-> "enhanced", of |-> 1]]
                /\ obs = [NoObs EXCEPT !.steps = <<"fetch", "capture", "enhance">>,
                                       !.fetch = "true", !.capture = "true",
                                       !.offset = offset, !.enhance = "enhanced"]

NextTransfer ==
    \/ UploadBegin
    \/ NextChunk
    \/ UploadReturn

\* the upload of one clip: every next_chunk() call returns or raises (the
\* HTTP layer times out) and every backoff sleep ends, so the loop takes its
\* next iteration
SpecTransfer == InitTransfer /\ [][NextTransfer]_vars /\ WF_vars(NextChunk)

(* ------------------------------ properties ----------------------------- *)
Decided == {"success", "failed", "error"}

Range(seq) == {seq[k] : k \in 1..Len(seq)}

\* the temporary files of a clip: its segment, frame and thumbnail
TempFiles(id) == {id} \X Kinds

\* C1: a run that processed its N youtube clips and wrote its summary ends
\* with a batch summary that holds exactly N outcomes, the k-th one being the
\* outcome of the k-th clip of the input, total_clips is N, and
\* successful + failed = total_clips (successful counts status success,
\* failed counts failed and error, no outcome is pending).
C1_SummaryMatchesInput ==
    /\ (pc = "exit" /\ ~fatal /\ youtube_clips # <<>>) =>
           summary.processed_at = "now"
    /\ summary.processed_at = "now" =>
        /\ Len(summary.clips) = Len(youtube_clips)
        /\ \A k \in 1..Len(youtube_clips) :
             /\ summary.clips[k].clip_id = ClipIdOf(youtube_clips[k], k - 1)
             /\ summary.clips[k].status \in Decided
        /\ summary.total_clips = Len(youtube_clips)
        /\ summary.successful + summary.failed = summary.total_clips
        /\ summary.successful =
               Cardinality({k \in 1..Len(summary.clips) :
                               summary.clips[k].status = "success"})

C1_Witness ==
    /\ summary.processed_at = "now"
    /\ summary.total_clips = 2
    /\ summary.clips[1].status = "error"
    /\ summary.clips[2].status = "success"

\* C2 as stated: once process_clip() has returned, none of the three
\* temporary files of that clip exists any more.
C2_NoTempFileLeft ==
    (pc = "loop" /\ results # <<>>) =>
        \A p \in TempFiles(results[Len(results)].clip_id) : ~Exists(files, p)

\* C2, amended: once process_clip() has returned, whatever the exit path, a
\* temporary file of that clip exists only if its unlink raised during the
\* cleanup; every other existing one was removed.
C2_LeftOnlyWhenUnlinkRaised ==
    (pc = "loop" /\ results # <<>>) =>
        /\ \A p \in TempFiles(results[Len(results)].clip_id) :
             Exists(files, p) => p \in cleanup.raised
        /\ \A p \in cleanup.removed : ~Exists(files, p)
        /\ cleanup.removed \cup cleanup.raised
               \subseteq TempFiles(results[Len(results)].clip_id)

C2_Witness ==
    /\ pc = "loop"
    /\ results # <<>>
    /\ results[Len(results)].status = "error"
    /\ Cardinality(cleanup.removed) = 2
    /\ cleanup.raised = {}

\* C3: when the segment fetch reports failure, the clip's outcome is failed
\* and process_clip() goes straight to its cleanup: no frame capture, no
\* enhancement and no upload is attempted for that clip.
C3_FetchFailureStopsClip ==
    obs.fetch = "false" =>
        /\ pc = "finally"
        /\ result.status = "failed"
        /\ obs.steps = <<"fetch">>
        /\ obs.capture = NoValue /\ obs.enhance = NoValue /\ obs.upload = NoValue

C3_Witness ==
    /\ pc = "finally"
    /\ obs.fetch = "false"
    /\ result.error = "Falha no download do segmento"
    /\ i = 1

\* C4 as stated: whenever the enhancer failed (it raised, returned failure
\* or left no output file), the clip reaches the upload step with the
\* captured frame as its thumbnail, no exception of the enhancement step
\* reaches the clip boundary, and the outcome is the upload's.
C4_EnhancerFailureStillUploads ==
    (pc = "finally" /\ obs.enhance = "failed") =>
        /\ obs.raised # "enhance"
        /\ obs.upload # NoValue
        /\ obs.thumb.data = "frame"
        /\ result.status = "success" <=> obs.upload = "vid"

\* C5 as stated: after five retriable failures in a row the transfer is
\* over, so no further chunk request is made.
C5_FiveFailuresEndTransfer ==
    pc = "chunk" => upl.consec < MAX_RETRIES

\* C5, amended: the transfer is abandoned on the failure that takes the retry
\* count past MAX_RETRIES, which is at the latest the sixth retriable failure
\* in a row; upload() then returns none with no further chunk request and the
\* clip's outcome is failed with a non-empty error message.
C5_SixFailuresEndTransfer ==
    /\ pc = "chunk" => upl.consec <= upl.retry /\ upl.retry <= MAX_RETRIES
    /\ obs.gaveUpAfter <= MAX_RETRIES + 1
    /\ obs.gaveUpAfter > 0 =>
         /\ pc \in {"uploaded", "finally"}
         /\ obs.upload = "no_id"
         /\ pc = "finally" =>
              /\ result.status = "failed"
              /\ result.error \notin {NoValue, ""}

C5_Witness ==
    /\ pc = "finally"
    /\ obs.gaveUpAfter = MAX_RETRIES + 1
    /\ result.status = "failed"

\* C6: each process_clip() call yields exactly one outcome; an exception
\* raised inside it does not leave it but gives an outcome with status error
\* and the exception's message, and status error has no other origin.
C6_OneOutcomePerCall ==
    /\ Len(results) = i
    /\ pc \in InClip => i < Total /\ result.clip_id = ClipId
    /\ pc = "finally" => result.status \in Decided
    /\ obs.raised # NoValue =>
         pc = "finally" /\ result.status = "error" /\ result.error = "str(e)"
    /\ (pc = "finally" /\ result.status = "error") => obs.raised # NoValue
    /\ \A k \in 1..Len(results) :
         /\ results[k].status \in Decided
         /\ results[k].status = "error" => results[k].error = "str(e)"

C6_Witness ==
    /\ pc = "finally"
    /\ obs.raised = "offset"
    /\ obs.fetch = "true"
    /\ result.status = "error"

StepRank(step) ==
    CASE step = "fetch" -> 1 [] step = "capture" -> 2
      [] step = "enhance" -> 3 [] step = "upload" -> 4

\* C7: inside one clip the steps run in the order fetch, capture, enhance,
\* upload, each at most once and never before the previous one is over; the
\* upload is attempted only after a fetch that succeeded (the segment file is
\* there); process_clip() is left only through its cleanup, which is last.
C7_StepOrder ==
    /\ [](/\ \A a, b \in 1..Len(obs.steps) :
                a < b => StepRank(obs.steps[a]) < StepRank(obs.steps[b])
          /\ obs.steps # <<>> => obs.steps[1] = "fetch"
          /\ "upload" \in Range(obs.steps) =>
                  obs.fetch = "true" /\ Exists(files, video_path(ClipId))
          /\ pc \notin InClip => obs = NoObs)
    /\ [][/\ (pc \in InClip /\ pc' \notin InClip) =>
                (pc = "finally" /\ pc' = "loop")
          /\ pc = "finally" =>
                \A p \in TempFiles(ClipId) :
                    Exists(files', p) => p \in cleanup'.raised]_vars

C7_Witness ==
    /\ pc = "finally"
    /\ obs.steps = <<"fetch", "capture", "enhance", "upload">>
    /\ result.status = "success"

\* C8: the exit status is 0 exactly when no fatal error occurred outside the
\* clips and every outcome is success, and it is 1 otherwise; a batch of two
\* clips whose first succeeds and whose second fails gives the summary
\* total 2, successful 1, failed 1 and the exit status 1.
C8_ExitStatus ==
    pc = "exit" =>
        /\ exitStatus \in {0, 1}
        /\ exitStatus = 0 <=>
               /\ ~fatal
               /\ \A k \in 1..Len(results) : results[k].status = "success"
        /\ exitStatus = 0 => Len(results) = Len(youtube_clips)
        /\ (/\ ~fatal
            /\ Len(results) = 2
            /\ results[1].status = "success"
            /\ results[2].status \in {"failed", "error"}) =>
               /\ summary.total_clips = 2
               /\ summary.successful = 1
               /\ summary.failed = 1
               /\ exitStatus = 1

C8_Witness ==
    /\ pc = "exit"
    /\ exitStatus = 1
    /\ ~fatal
    /\ Len(results) = 2
    /\ results[1].status = "success"
    /\ results[2].error = "Falha no download do segmento"

\* C9 as stated: with the credential (token) file missing, the run stops
\* before any per-clip step.
C9_MissingTokenIsFatal ==
    pc \in InClip => TokenFile(credentials, pkls) # "missing"

C11_PauseAfterEverySuccess ==
    \A k \in 1..Len(results) :
        (k - 1) \in Range(pauses) <=> results[k].status = "success"

\* C11, amended: the pause is taken after every clip whose outcome is success
\* except the last clip of the batch, and after no clip whose outcome is
\* failed or error.
C11_PauseAfterSuccessButLast ==
    /\ \A k \in 1..Len(results) :
         (k - 1) \in Range(pauses) <=>
             (results[k].status = "success" /\ k < Len(youtube_clips))
    /\ \A a, b \in 1..Len(pauses) : a < b => pauses[a] < pauses[b]

C11_Witness ==
    /\ pc = "exit"
    /\ Len(results) = 2
    /\ results[1].status = "success"
    /\ results[2].status = "success"
    /\ pauses = <<0>>

C13_EveryRunPersists ==
    (pc = "exit" /\ ~fatal) => summary.processed_at = "now"

\* C13, amended: the summary is written at most once per run, as the last
\* step of a run that processed all its clips, of which there is at least
\* one; it replaces what the earlier run left.  A run that ends before the
\* loop (fatal setup error, or no clip of the platform, which exits with 0)
\* writes nothing and leaves the earlier artifact as it was.
C13_PersistedOnceAfterAllClips ==
    /\ [](IF summary.processed_at = "now"
          THEN /\ pc = "exit"
               /\ youtube_clips # <<>>
               /\ Len(results) = Len(youtube_clips)
               /\ summary.clips = results
               /\ summary.total_clips = Len(results)
          ELSE summary = PriorSummary)
    /\ []((pc = "exit" /\ ~fatal /\ youtube_clips # <<>>) =>
              summary.processed_at = "now")
    /\ [][summary.processed_at # "now"]_vars

C13_Witness ==
    /\ pc = "exit"
    /\ summary.processed_at = "now"
    /\ summary.total_clips = 1
    /\ summary.clips # PriorSummary.clips

\* C14: for every seconds count n >= 0, parsing the formatted n gives n back.
C14_RoundTrip ==
    codec.stage = "round_trip" =>
        codec.parsed.ok /\ codec.parsed.val = codec.n

C14_Witness ==
    /\ codec.stage = "round_trip"
    /\ codec.n = 3723
    /\ codec.text = <<0, 1, COLON, 0, 2, COLON, 0, 3>>
    /\ codec.parsed.val = 3723

\* a clock string of shape H:M:S, M:S or S, every field a run of digits
ValidClock(s) ==
    LET f == Split(s) IN Len(f) \in 1..3 /\ \A k \in 1..Len(f) : IsInt(f[k])

\* the seconds count of a valid clock string: the last field counts
\* seconds, the one before it minutes, the one before that hours
ClockValue(s) ==
    LET f == Split(s)
        fromEnd(k) == IF k < Len(f) THEN ToInt(f[Len(f) - k]) ELSE 0
    IN  fromEnd(2) * 3600 + fromEnd(1) * 60 + fromEnd(0)

\* C15: for every valid clock string s, time_to_seconds(s) is
\* H*3600 + M*60 + S ("01:02:03" gives 3723, "02:30" gives 150, "45" gives
\* 45), and formatting that count gives three zero-padded fields, minutes and
\* seconds below 60, that stand for the same count.
C15_ParseThenNormalize ==
    (codec.stage \in {"parsed", "normalized"} /\ ValidClock(codec.input)) =>
        /\ codec.parsed.ok
        /\ codec.parsed.val = ClockValue(codec.input)
        /\ codec.input = <<0, 1, COLON, 0, 2, COLON, 0, 3>> => codec.parsed.val = 3723
        /\ codec.input = <<0, 2, COLON, 3, 0>> => codec.parsed.val = 150
        /\ codec.input = <<4, 5>> => codec.parsed.val = 45
        /\ codec.stage = "normalized" =>
             LET g == Split(codec.text) IN
             /\ Len(g) = 3
             /\ \A k \in 1..3 : IsInt(g[k]) /\ Len(g[k]) >= 2
             /\ Len(g[1]) > 2 => g[1][1] # 0
             /\ ToInt(g[2]) < 60 /\ ToInt(g[3]) < 60
             /\ ClockValue(codec.text) = ClockValue(codec.input)

C15_Witness ==
    /\ codec.stage = "normalized"
    /\ codec.input = <<0, 2, COLON, 9, 0>>
    /\ codec.text = <<0, 0, COLON, 0, 3, COLON, 3, 0>>

\* C16 as stated: time_to_seconds returns a seconds count only for a string
\* of shape H:M:S, M:S or bare seconds; every other input is rejected.
C16_OtherShapesRejected ==
    (codec.stage \in {"parsed", "normalized"} /\ ~ValidClock(codec.input)) =>
        ~codec.parsed.ok

\* C17: an HttpError with a non-retriable status ends the transfer loop in
\* the iteration it is raised in: it is not counted as a retry, the loop body
\* with its backoff sleep is not entered again and no further chunk request
\* is made; upload() returns none and the clip is failed.
C17_NonRetriableEndsTransfer ==
    /\ [](obs.nonRetriable =>
            /\ pc \in {"uploaded", "finally"}
            /\ upl = NoUpload
            /\ obs.upload = "no_id"
            /\ obs.gaveUpAfter = 0
            /\ pc = "finally" => result.status = "failed")
    /\ [][(obs'.nonRetriable /\ ~obs.nonRetriable) =>
             (pc = "chunk" /\ pc' = "uploaded")]_vars

C17_Witness ==
    /\ pc = "finally"
    /\ obs.nonRetriable
    /\ result.error = "Falha no upload"
    /\ i = 1

\* C18: once the transfer returned a video id, upload() returns it and the
\* clip succeeds whatever the thumbnail attach step did (403, another HTTP
\* error, any exception): the result is never none and nothing is raised.
C18_AttachFailureKeepsId ==
    (pc = "finally" /\ obs.upload = "vid") =>
        /\ result.status = "success"
        /\ result.video_id = "vid"
        /\ obs.raised = NoValue

C18_Witness ==
    /\ pc = "finally"
    /\ obs.upload = "vid"
    /\ obs.attach = "False"
    /\ result.status = "success"
    /\ obs.thumb.data = "enhanced"

\* C19 as stated: after load_youtube_credentials() returned, a token file
\* that was fetched is at the path the bundle names, so that whenever a
\* token file is on disk the path of the bundle exists.
C19_FetchedTokenAtBundlePath ==
    (credentials.pkl_file \in {"analisar", "root"} /\ pkls # {}) =>
        credentials.pkl_file \in pkls

\* C20 as stated: download_clip_segment() always returns to its caller, with
\* true (and then the segment file exists) or false, and never raises.
C20_FetchReturnsTrueOrFalse ==
    obs.fetch # NoValue =>
        /\ obs.fetch \in {"true", "false"}
        /\ obs.fetch = "true" => Exists(files, video_path(ClipId))

\* the steps of the browser flow of generate()
FlowSteps == {"login", "create", "attach", "prompt", "retrieve"}

\* C21 as stated: when a step of the browser flow (login, image attach,
\* prompt submission, image retrieval) fails, generate() returns False, never
\* True and never with an exception, and when the failure was an exception
\* the diagnostic screenshot was taken before the return.
C21_StepFailureReturnsFalse ==
    (generator.pc = "done" /\ generator.failed \in FlowSteps) =>
        /\ generator.ret = "False"
        /\ generator.exc => generator.shot

\* C22 as stated: the poller makes at most max_attempts inbox queries and
\* ends in one of two ways, with a code or, the attempts exhausted, with the
\* timeout error.
C22_CodeOrTimeout ==
    /\ generator.queries <= max_attempts
    /\ generator.poll \in {NoValue, "code", "timeout"}
    /\ generator.poll = "timeout" => generator.queries = max_attempts

\* C22, amended: the poller makes at most max_attempts (30) inbox queries,
\* each one that gave no code followed by the sleep of the fixed interval
\* before the next, and it always terminates: it returns the six-digit code
\* of a message received at or after its start time, or raises the timeout
\* error once the 30 attempts are exhausted, or is left at once by the
\* exception of an inbox request that failed.
C22_BoundedPolling ==
    /\ [](/\ generator.queries <= max_attempts
          /\ generator.sleeps = generator.attempt
          /\ generator.queries \in {generator.sleeps, generator.sleeps + 1}
          /\ generator.poll \in {NoValue, "code", "timeout", "api_error"}
          /\ generator.poll = "code" =>
                 \E m \in generator.inbox : m.date = "fresh" /\ m.sixDigits
          /\ generator.poll = "timeout" =>
                 generator.queries = max_attempts /\ generator.sleeps = max_attempts
          /\ generator.poll = "api_error" => generator.sleeps < max_attempts
          /\ generator.pc = "poll" => generator.poll = NoValue)
    /\ (generator.pc = "poll" ~> generator.pc # "poll")

C22_Witness ==
    /\ generator.poll = "timeout"
    /\ generator.queries = max_attempts
    /\ generator.pc = "done"
    /\ generator.ret = "False"

\* C23 as stated: the token is loaded once per run, and a loaded token that
\* is expired and refreshable is refreshed and written back to the place it
\* was loaded from before the service is built.
C23_TokenLoadedOncePerRun ==
    /\ svc.loads <= 1
    /\ (svc.built /\ svc.loaded = "expired_refreshable") =>
           svc.written = svc.opened

\* C23, amended: the token is loaded once per uploader, that is once for
\* every clip that reaches the upload step, never twice for one uploader;
\* whenever the loaded token is expired and refreshable, it is refreshed and
\* the refreshed token is written back to the storage location it was loaded
\* from before the upload service is built; no other token file is written.
C23_TokenLoadedPerUpload ==
    /\ [](/\ svc.loads <= svc.calls
          /\ svc.built => svc.loaded # NoValue
          /\ (svc.built /\ svc.loaded = "expired_refreshable") =>
                 svc.creds = "refreshed" /\ svc.written = svc.opened
          /\ (svc.built /\ svc.loaded # "expired_refreshable") =>
                 svc.written = NoValue /\ svc.creds = svc.loaded
          /\ svc.written # NoValue => svc.written = svc.opened
          /\ \A l \in TokenPlaces : svc.store[l] # "absent" <=> l \in pkls)
    /\ [][/\ svc'.loads \in {svc.loads, svc.loads + 1}
          /\ svc'.loads # svc.loads => svc.loaded = NoValue /\ svc.pc = "open"
          /\ (svc'.built /\ ~svc.built) =>
                 /\ svc.pc = "build"
                 /\ svc.loaded = "expired_refreshable" =>
                        svc.store[svc.opened] = "refreshed"
          /\ \A l \in TokenPlaces :
               (svc'.store[l] = "refreshed" /\ svc.store[l] # "refreshed") =>
                   l = svc.opened /\ svc.loaded = "expired_refreshable"]_vars

C23_Witness ==
    /\ svc.built
    /\ svc.calls = 2
    /\ svc.loads = 2
    /\ svc.loaded = "expired_refreshable"
    /\ svc.opened = "analisar"
    /\ credentials.pkl_file = "root"
    /\ svc.store["analisar"] = "refreshed"

\* C24: for a descriptor whose start_time and thumbnail_timestamp are valid
\* clock strings, the offset handed to the frame capturer is
\* max(0, seconds(thumbnail_timestamp) - seconds(start_time)) written as
\* HH:MM:SS; a missing thumbnail_timestamp stands for start_time and gives
\* the offset 0 (a missing start_time stands for "00:00:00"); the offset is
\* never negative.
C24_FrameOffsetClamped ==
    LET c == codec.clip
        start == IF "start_time" \in c.keys THEN c.start_time ELSE T_default0
        thumb == IF "thumbnail_timestamp" \in c.keys THEN c.thumbnail_timestamp
                 ELSE start
        diff == ClockValue(thumb) - ClockValue(start)
        g == Split(codec.offset.text)
    IN
    (codec.stage = "offset" /\ ValidClock(start) /\ ValidClock(thumb)) =>
        /\ codec.offset.ok
        /\ Len(g) = 3
        /\ \A k \in 1..3 : IsInt(g[k]) /\ Len(g[k]) >= 2
        /\ ToInt(g[2]) < 60 /\ ToInt(g[3]) < 60
        /\ ClockValue(codec.offset.text) = IF diff > 0 THEN diff ELSE 0
        /\ "thumbnail_timestamp" \notin c.keys =>
               codec.offset.text = T_default0

C24_Witness ==
    /\ codec.stage = "offset"
    /\ codec.clip.keys = AllKeys
    /\ codec.clip.start_time = <<0, 1, COLON, 3, 0>>
    /\ codec.clip.thumbnail_timestamp = <<4, 5>>
    /\ codec.offset.text = T_default0

\* C25: the thumbnail handed to the upload step is the file at the enhanced
\* thumbnail path when it exists, otherwise the captured frame; when neither
\* exists the upload is still made, with no thumbnail handed and none
\* attached, and every clip whose fetch succeeded and that raised nothing
\* gets to the upload.
C25_ThumbnailHandedToUpload ==
    /\ (pc \in InClip /\ "upload" \in Range(obs.steps)) =>
         LET enhanced == files[<<ClipId, "thumbnail">>]
             frame == files[<<ClipId, "frame">>]
         IN  /\ enhanced # Absent => obs.thumb = enhanced
             /\ (enhanced = Absent /\ frame # Absent) => obs.thumb = frame
             /\ (enhanced = Absent /\ frame = Absent) =>
                    obs.thumb = Absent /\ obs.attach = NoValue
    /\ (pc = "finally" /\ obs.fetch = "true" /\ obs.raised = NoValue) =>
         "upload" \in Range(obs.steps) /\ obs.upload # NoValue

C25_Witness ==
    /\ pc = "finally"
    /\ obs.steps = <<"fetch", "capture", "upload">>
    /\ obs.thumb = Absent
    /\ obs.upload = "vid"
    /\ result.status = "success"

\* C26: the retry counter of a transfer is the number of its retriable
\* failures so far, whatever chunks went through in between; the transfer
\* goes on through MAX_RETRIES of them, and the retriable failure after
\* MAX_RETRIES in total, in a row or not, ends it at once with none.
C26_RetriesCountedOverTransfer ==
    /\ [](pc = "chunk" =>
            /\ upl.retry = upl.failures
            /\ upl.consec <= upl.failures
            /\ upl.failures <= MAX_RETRIES)
    /\ [][/\ (pc = "chunk" /\ pc' = "chunk") =>
                \/ upl'.failures = upl.failures + 1 /\ upl.failures < MAX_RETRIES
                \/ upl'.failures = upl.failures /\ upl'.chunksLeft < upl.chunksLeft
          /\ (pc = "chunk" /\ obs'.gaveUpAfter > 0) =>
                /\ upl.failures = MAX_RETRIES
                /\ obs'.upload = "no_id"
                /\ pc' = "uploaded"]_vars

C26_Witness ==
    /\ pc = "finally"
    /\ obs.gaveUpAfter \in 1..MAX_RETRIES
    /\ obs.upload = "no_id"
    /\ result.status = "failed"

\* what is left of a transfer: the chunks to send and the retries to use
TransferMeasure(u) == u.chunksLeft + (MAX_RETRIES - u.retry)

\* C27: the transfer loop of a file of finitely many chunks always ends:
\* every iteration that stays in the loop either transfers a chunk or uses
\* one of the MAX_RETRIES retries, and the loop is left with a video id,
\* with none, or with an error that is not retried and that upload() turns
\* into none.
C27_TransferTerminates ==
    /\ (pc = "chunk" ~> pc = "uploaded")
    /\ [](pc = "chunk" =>
            upl.chunksLeft \in 1..MaxChunks /\ upl.retry \in 0..MAX_RETRIES)
    /\ [](pc = "uploaded" =>
            /\ obs.upload \in {"vid", "no_id"}
            /\ (obs.nonRetriable \/ obs.gaveUpAfter > 0) => obs.upload = "no_id")
    /\ [][/\ (pc = "chunk" /\ pc' = "chunk") =>
                /\ TransferMeasure(upl') = TransferMeasure(upl) - 1
                /\ \/ upl'.chunksLeft = upl.chunksLeft - 1 /\ upl'.retry = upl.retry
                   \/ upl'.chunksLeft = upl.chunksLeft /\ upl'.retry = upl.retry + 1
          /\ (pc = "chunk" /\ pc' # "chunk") => pc' = "uploaded"]_vars

C27_Witness ==
    /\ pc = "uploaded"
    /\ obs.upload = "vid"
    /\ Len(results) = 0
    /\ obs.thumb.data = "enhanced"
    /\ obs.gaveUpAfter = 0

\* an outcome whose fields agree
Consistent(r) ==
    /\ r.status \in {"success", "failed", "error"}
    /\ r.video_id # NoValue <=> r.status = "success"
    /\ r.error # NoValue <=> r.status \in {"failed", "error"}

\* C28: every outcome process_clip() returns has a status among success,
\* failed and error, never pending, a video id exactly when the status is
\* success, and an error exactly when the status is failed or error.
C28_OutcomeConsistent ==
    /\ \A k \in 1..Len(results) : Consistent(results[k])
    /\ pc = "finally" => Consistent(result)

C28_Witness ==
    /\ pc = "loop"
    /\ Len(results) = 2
    /\ results[1].status = "error"
    /\ results[1].video_id = NoValue
    /\ results[2].video_id = "vid"
    /\ results[2].error = NoValue

\* C29 as stated: when the capture left no frame file, the enhancer is not
\* invoked for that clip, the upload is still attempted and is handed no
\* thumbnail, and the outcome is the one of the upload.
C29_NoFrameUploadsWithoutThumbnail ==
    (/\ pc \in {"upload", "chunk", "uploaded", "finally"}
     /\ "capture" \in Range(obs.steps)
     /\ files[<<ClipId, "frame">>] = Absent) =>
        /\ "enhance" \notin Range(obs.steps)
        /\ "upload" \in Range(obs.steps) => obs.thumb = Absent
        /\ pc = "finally" =>
             /\ obs.upload # NoValue
             /\ result.status = "success" <=> obs.upload = "vid"

\* C30: for each clip at most one upload, with its one insert request, is
\* started: it is started for the clip of the current index, which has no
\* outcome yet; once the upload returned none no other is started for that
\* clip; the index only moves forward, by one and together with the clip's
\* outcome, so no clip is taken up again.
C30_OneUploadPerClip ==
    /\ [](/\ Cardinality({k \in 1..Len(obs.steps) : obs.steps[k] = "upload"}) <= 1
          /\ Len(results) = i
          /\ pc \in {"chunk", "uploaded"} =>
                 "upload" \in Range(obs.steps) /\ i < Len(youtube_clips))
    /\ [][/\ ("upload" \in Range(obs'.steps) /\ "upload" \notin Range(obs.steps)) =>
                pc = "upload" /\ i' = i /\ Len(results) = i
          /\ (pc' = "chunk" /\ pc # "chunk") => pc = "upload"
          /\ (pc \in InClip /\ obs.upload = "no_id") =>
                pc' \in {"uploaded", "finally", "loop"}
          /\ i' \in {i, i + 1}
          /\ i' = i + 1 => pc = "finally" /\ Len(results') = i + 1
          /\ pc' = "download" => pc = "loop" /\ Len(results) = i]_vars

C30_Witness ==
    /\ pc = "exit"
    /\ Len(results) = 2
    /\ results[1].error = "Falha no upload"
    /\ results[2].status = "success"
    /\ i = 2

\* C31: every video the pipeline uploads is submitted with privacy status
\* "private": the insert request of every transfer that is under way or has
\* ended carries it, so does every transfer that gave a video id, and no
\* request carries "public" or "unlisted".
C31_UploadsArePrivate ==
    /\ obs.privacy \in {NoValue, "private"}
    /\ pc \in {"chunk", "uploaded"} => obs.privacy = "private"
    /\ obs.upload = "vid" => obs.privacy = "private"
    /\ (pc = "finally" /\ result.status = "success") => obs.privacy = "private"

C31_Witness ==
    /\ pc = "finally"
    /\ result.status = "success"
    /\ result.video_id = "vid"
    /\ obs.privacy = "private"

CurrentCodeMails ==
    {m \in generator.inbox :
        m.login = "current" /\ m.sixDigits /\ m.date \in {"early", "fresh"}}

\* C33 as stated: the poller never returns the code of a message received
\* before polling started, and whenever the code mail of the current login
\* request is delivered after the submit and while the poller runs, delivery
\* between the submit click and the start of polling included, the poller
\* eventually returns that code (an inbox request that raised, the outcome
\* C22 adds, is left aside here).
C33_FreshCodeReturned ==
    /\ [](generator.poll = "code" =>
             \E m \in generator.inbox :
                 m.date = "fresh" /\ m.sixDigits /\ m.login = generator.code)
    /\ ((generator.pc = "poll" /\ CurrentCodeMails # {})
           ~> (\/ generator.poll = "code" /\ generator.code = "current"
               \/ generator.poll = "api_error"))

====
